---- MODULE Spec2Model ----
(***************************************************************************)
(* Model of check_csv_charset.py: the encoding classifier                  *)
(* (detect_encoding and its heuristics), the conversion engine             *)
(* (convert_file_encoding, convert_folder_files, rollback_backups), folder *)
(* discovery (count_total_csv_files), the parallel classification of a     *)
(* batch (analyze_all_subfolders) and the overall summary                  *)
(* (display_summary).                                                      *)
(*                                                                         *)
(* Bytes are integers 0..255, a file's content is a sequence of bytes, a   *)
(* decoded text is a sequence of code points.  Paths are records           *)
(* [stem, ext, bak]: "a.CSV.bak" is [stem |-> "a", ext |-> ".CSV",         *)
(* bak |-> TRUE].  The file system is POSIX: glob patterns match names     *)
(* case-sensitively.                                                       *)
(***************************************************************************)
EXTENDS Integers, Sequences, FiniteSets, TLC

VARIABLES
    disk,           \* existing path -> content (sequence of bytes)
    folder_result,  \* the classified folder handed to conversion
    hist,           \* the conversion / rollback runs so far, oldest first
    dfile,          \* classifier: content of the file being classified
    dparams,        \* classifier: [sample_size, do_second_pass]
    dres,           \* classifier: outcome of the last detect_encoding call
    tree,           \* batch: file under the root -> content
    opts,           \* batch: the options of the run
    batch,          \* batch: analyze_all_subfolders in the main process
    futures         \* batch: the futures of the submitted tasks

vars == <<disk, folder_result, hist, dfile, dparams, dres, tree, opts, batch, futures>>

convVars == <<disk, folder_result, hist>>
detVars == <<dfile, dparams, dres>>
batchVars == <<tree, opts, batch, futures>>

(***************************************************************************)
(* Bounds of the model.                                                    *)
(***************************************************************************)
MaxLen == 2        \* longest initial content of a file to convert
MaxRuns == 2       \* conversion / rollback runs in one behaviour
MaxBody == 3       \* classifier: bytes following the chosen file prefix
MaxSample == 4     \* classifier: largest sample_size

(***************************************************************************)
(* Byte values the initial files are built from: CR, 'A', and the bytes of *)
(* e-acute in ISO-8859-1 (E9) and in UTF-8 (C3 A9).                        *)
(***************************************************************************)
ByteAlphabet == {13, 65, 195, 169, 233}

RECURSIVE SeqsUpTo(_, _)
SeqsUpTo(S, n) ==
    IF n = 0 THEN {<<>>}
    ELSE LET shorter == SeqsUpTo(S, n - 1)
         IN shorter \cup {Append(s, x) : s \in {t \in shorter : Len(t) = n - 1}, x \in S}

Tail2(s, n) == SubSeq(s, n + 1, Len(s))

(***************************************************************************)
(* Encoding labels and str.lower() on them.                                *)
(***************************************************************************)
ErrorLabels == {"error: [Errno 13] Permission denied"}

Labels == {"ascii", "UTF-8", "ISO-8859-1", "unknown", "binary"} \cup ErrorLabels

Targets == {"utf-8", "ascii"}

Lower(s) ==
    CASE s = "UTF-8" -> "utf-8"
      [] s = "ISO-8859-1" -> "iso-8859-1"
      [] s = "ASCII" -> "ascii"
      [] OTHER -> s

StartsWithError(s) == s \in ErrorLabels

\* The codec Python's open(..., encoding=label) looks up for a label.
CodecOf(label) ==
    CASE Lower(label) \in {"utf-8", "utf8"} -> "utf-8"
      [] Lower(label) \in {"ascii", "us-ascii"} -> "ascii"
      [] Lower(label) \in {"iso-8859-1", "latin-1", "latin1"} -> "latin-1"
      [] OTHER -> "none"

(***************************************************************************)
(* Strict codecs.                                                          *)
(***************************************************************************)
DecodeFail == [ok |-> FALSE, text |-> <<>>]

RECURSIVE utf8_decode(_)
utf8_decode(b) ==
    IF b = <<>> THEN [ok |-> TRUE, text |-> <<>>]
    ELSE LET b0 == b[1]
             n == IF b0 < 128 THEN 1
                  ELSE IF b0 >= 194 /\ b0 <= 223 THEN 2
                  ELSE IF b0 >= 224 /\ b0 <= 239 THEN 3
                  ELSE IF b0 >= 240 /\ b0 <= 244 THEN 4
                  ELSE 0
             wellformed ==
                 /\ n > 0
                 /\ Len(b) >= n
                 /\ \A i \in 2..n : b[i] >= 128 /\ b[i] <= 191
                 /\ (b0 = 224 => b[2] >= 160)
                 /\ (b0 = 237 => b[2] <= 159)
                 /\ (b0 = 240 => b[2] >= 144)
                 /\ (b0 = 244 => b[2] <= 143)
             cp == CASE n = 1 -> b0
                     [] n = 2 -> (b0 - 192) * 64 + (b[2] - 128)
                     [] n = 3 -> (b0 - 224) * 4096 + (b[2] - 128) * 64 + (b[3] - 128)
                     [] OTHER -> (b0 - 240) * 262144 + (b[2] - 128) * 4096
                                 + (b[3] - 128) * 64 + (b[4] - 128)
         IN IF ~wellformed THEN DecodeFail
            ELSE LET rest == utf8_decode(Tail2(b, n))
                 IN IF rest.ok THEN [ok |-> TRUE, text |-> <<cp>> \o rest.text]
                    ELSE DecodeFail

Decode(codec, b) ==
    CASE codec = "utf-8" -> utf8_decode(b)
      [] codec = "ascii" ->
            IF \A i \in 1..Len(b) : b[i] < 128 THEN [ok |-> TRUE, text |-> b]
            ELSE DecodeFail
      [] codec = "latin-1" -> [ok |-> TRUE, text |-> b]
      [] OTHER -> DecodeFail

EncodeFail == [ok |-> FALSE, bytes |-> <<>>]

utf8_encode_cp(cp) ==
    IF cp < 128 THEN <<cp>>
    ELSE IF cp < 2048 THEN <<192 + (cp \div 64), 128 + (cp % 64)>>
    ELSE IF cp < 65536 THEN
        <<224 + (cp \div 4096), 128 + ((cp \div 64) % 64), 128 + (cp % 64)>>
    ELSE <<240 + (cp \div 262144), 128 + ((cp \div 4096) % 64),
           128 + ((cp \div 64) % 64), 128 + (cp % 64)>>

RECURSIVE utf8_encode(_)
utf8_encode(t) ==
    IF t = <<>> THEN <<>>
    ELSE utf8_encode_cp(t[1]) \o utf8_encode(Tail(t))

Encode(codec, t) ==
    CASE codec = "utf-8" ->
            IF \A i \in 1..Len(t) : t[i] < 55296 \/ t[i] > 57343
            THEN [ok |-> TRUE, bytes |-> utf8_encode(t)]
            ELSE EncodeFail
      [] codec = "ascii" ->
            IF \A i \in 1..Len(t) : t[i] < 128 THEN [ok |-> TRUE, bytes |-> t]
            ELSE EncodeFail
      [] codec = "latin-1" ->
            IF \A i \in 1..Len(t) : t[i] < 256 THEN [ok |-> TRUE, bytes |-> t]
            ELSE EncodeFail
      [] OTHER -> EncodeFail

\* Text-mode reading translates "\r\n" and "\r" to "\n" (newline=None).
RECURSIVE UniversalNewlines(_)
UniversalNewlines(t) ==
    IF t = <<>> THEN <<>>
    ELSE IF t[1] = 13 THEN
        IF Len(t) >= 2 /\ t[2] = 10 THEN <<10>> \o UniversalNewlines(Tail2(t, 2))
        ELSE <<10>> \o UniversalNewlines(Tail(t))
    ELSE <<t[1]>> \o UniversalNewlines(Tail(t))

\* open(file_path, 'r', encoding=source_encoding, errors='strict').read()
ReadText(b, source_encoding) ==
    LET dec == Decode(CodecOf(source_encoding), b)
    IN IF dec.ok THEN [ok |-> TRUE, text |-> UniversalNewlines(dec.text)] ELSE DecodeFail

(***************************************************************************)
(* Paths and the file system.                                              *)
(***************************************************************************)
Paths == [stem : {"a"}, ext : {".csv", ".CSV"}, bak : BOOLEAN]

\* file_path.with_suffix(file_path.suffix + '.bak')
BackupPath(p) == [p EXCEPT !.bak = TRUE]

\* backup_file.with_suffix('')
OriginalPath(p) == [p EXCEPT !.bak = FALSE]

\* Path.glob / rglob matching of a file name against the patterns the program uses.
GlobMatch(pattern, p) ==
    CASE pattern = "*.csv" -> ~p.bak /\ p.ext = ".csv"
      [] pattern = "*.CSV" -> ~p.bak /\ p.ext = ".CSV"
      [] pattern = "*.csv.bak" -> p.bak /\ p.ext = ".csv"
      [] OTHER -> FALSE

\* The files discovery matches: glob('*.csv') + glob('*.CSV').
IsCsvFile(p) == GlobMatch("*.csv", p) \/ GlobMatch("*.CSV", p)

Exists(d, p) == p \in DOMAIN d

WriteFile(d, p, b) == [q \in (DOMAIN d) \cup {p} |-> IF q = p THEN b ELSE d[q]]

RemoveFile(d, p) == [q \in (DOMAIN d) \ {p} |-> d[q]]

(***************************************************************************)
(* convert_file_encoding.  Every result carries the file system after the  *)
(* call and the file operations the call performed, in order:              *)
(* [op |-> "read" | "backup" | "open_w" | "write", ok |-> succeeded].      *)
(* copy_fails is the environment making shutil.copy2 raise (the backup     *)
(* destination cannot be created); nothing has been copied then.           *)
(***************************************************************************)
Ev(op, ok) == [op |-> op, ok |-> ok]

Outcome(d, success, message, io) ==
    [disk |-> d, success |-> success, message |-> message, io |-> io]

SameEncodingCaseSensitive(a, b) == a = b

\* source_encoding.lower() == target_encoding.lower()
SameEncoding(a, b) == Lower(a) = Lower(b)

\* source_encoding in ['unknown', 'binary'] or source_encoding.startswith('error')
IsUnconvertible(source_encoding) ==
    source_encoding \in {"unknown", "binary"} \/ StartsWithError(source_encoding)

\* The backup copy taken before the file has been read and decoded.
read_backup_write_backup_first(d, file_path, target_encoding, source_encoding, backup, copy_fails) ==
    IF ~Exists(d, file_path) THEN Outcome(d, FALSE, "Error", <<Ev("read", FALSE)>>)
    ELSE IF backup /\ copy_fails THEN Outcome(d, FALSE, "Error", <<Ev("backup", FALSE)>>)
    ELSE LET d1 == IF backup THEN WriteFile(d, BackupPath(file_path), d[file_path]) ELSE d
             io0 == IF backup THEN <<Ev("backup", TRUE)>> ELSE <<>>
             content == ReadText(d[file_path], source_encoding)
         IN IF ~content.ok THEN Outcome(d1, FALSE, "Decode error", io0 \o <<Ev("read", FALSE)>>)
            ELSE LET enc == Encode(CodecOf(target_encoding), content.text)
                     io1 == io0 \o <<Ev("read", TRUE), Ev("open_w", TRUE)>>
                 IN IF ~enc.ok
                    THEN Outcome(WriteFile(d1, file_path, <<>>), FALSE, "Encode error",
                                 io1 \o <<Ev("write", FALSE)>>)
                    ELSE Outcome(WriteFile(d1, file_path, enc.bytes), TRUE, "Converted",
                                 io1 \o <<Ev("write", TRUE)>>)

\* The file rewritten before the backup copy is taken.
read_backup_write_write_first(d, file_path, target_encoding, source_encoding, backup, copy_fails) ==
    IF ~Exists(d, file_path) THEN Outcome(d, FALSE, "Error", <<Ev("read", FALSE)>>)
    ELSE LET content == ReadText(d[file_path], source_encoding)
             enc == Encode(CodecOf(target_encoding), content.text)
             io1 == <<Ev("read", TRUE), Ev("open_w", TRUE)>>
         IN IF ~content.ok THEN Outcome(d, FALSE, "Decode error", <<Ev("read", FALSE)>>)
            ELSE IF ~enc.ok
            THEN Outcome(WriteFile(d, file_path, <<>>), FALSE, "Encode error",
                         io1 \o <<Ev("write", FALSE)>>)
            ELSE LET d1 == WriteFile(d, file_path, enc.bytes)
                 IN IF ~backup THEN Outcome(d1, TRUE, "Converted", io1 \o <<Ev("write", TRUE)>>)
                    ELSE IF copy_fails
                    THEN Outcome(d1, FALSE, "Error",
                                 io1 \o <<Ev("write", TRUE), Ev("backup", FALSE)>>)
                    ELSE Outcome(WriteFile(d1, BackupPath(file_path), d1[file_path]), TRUE,
                                 "Converted", io1 \o <<Ev("write", TRUE), Ev("backup", TRUE)>>)

\* Lines 294-314: read and decode, back up, then open for writing (which
\* truncates the file) and write the text encoded in the target encoding.
read_backup_write(d, file_path, target_encoding, source_encoding, backup, copy_fails) ==
    IF ~Exists(d, file_path) THEN Outcome(d, FALSE, "Error", <<Ev("read", FALSE)>>)
    ELSE LET content == ReadText(d[file_path], source_encoding)
         IN IF ~content.ok THEN Outcome(d, FALSE, "Decode error", <<Ev("read", FALSE)>>)
            ELSE IF backup /\ copy_fails
            THEN Outcome(d, FALSE, "Error", <<Ev("read", TRUE), Ev("backup", FALSE)>>)
            ELSE LET d1 == IF backup
                           THEN WriteFile(d, BackupPath(file_path), d[file_path])
                           ELSE d
                     io1 == IF backup
                            THEN <<Ev("read", TRUE), Ev("backup", TRUE)>>
                            ELSE <<Ev("read", TRUE)>>
                     \* open(file_path, 'w', ...) truncates before f.write encodes
                     d2 == WriteFile(d1, file_path, <<>>)
                     enc == Encode(CodecOf(target_encoding), content.text)
                 IN IF ~enc.ok
                    THEN Outcome(d2, FALSE, "Encode error",
                                 io1 \o <<Ev("open_w", TRUE), Ev("write", FALSE)>>)
                    ELSE Outcome(WriteFile(d2, file_path, enc.bytes), TRUE, "Converted",
                                 io1 \o <<Ev("open_w", TRUE), Ev("write", TRUE)>>)

\* The backup copy taken on entry, before the label is looked at.
convert_file_encoding_eager_backup(d, file_path, target_encoding, source_encoding, backup, copy_fails) ==
    LET d0 == IF backup /\ ~copy_fails /\ Exists(d, file_path)
              THEN WriteFile(d, BackupPath(file_path), d[file_path])
              ELSE d
        io0 == IF backup /\ Exists(d, file_path) THEN <<Ev("backup", ~copy_fails)>> ELSE <<>>
    IN IF SameEncoding(source_encoding, target_encoding)
       THEN Outcome(d0, TRUE, "already_target", io0)
       ELSE IF IsUnconvertible(source_encoding)
       THEN Outcome(d0, FALSE, "Cannot convert", io0)
       ELSE read_backup_write(d, file_path, target_encoding, source_encoding, backup, copy_fails)

convert_file_encoding(d, file_path, target_encoding, source_encoding, backup, copy_fails) ==
    IF SameEncoding(source_encoding, target_encoding)
    THEN Outcome(d, TRUE, "already_target", <<>>)
    ELSE IF IsUnconvertible(source_encoding)
    THEN Outcome(d, FALSE, "Cannot convert", <<>>)
    ELSE read_backup_write(d, file_path, target_encoding, source_encoding, backup, copy_fails)

(***************************************************************************)
(* convert_folder_files: the statistics and one iteration of its loop.     *)
(***************************************************************************)
NewStats(total) ==
    [total |-> total, converted |-> 0, skipped |-> 0, failed |-> 0, already_target |-> 0,
     failed_files |-> <<>>, by_encoding |-> [l \in Labels |-> 0]]

FileOutcome(file_info, called, r) ==
    [path |-> file_info.path, encoding |-> file_info.encoding, called |-> called,
     success |-> r.success, message |-> r.message, io |-> r.io]

\* Lines 347-362: the simulation branch counts and touches nothing.
dry_run_file(acc, file_info, target_encoding) ==
    LET source_encoding == file_info.encoding
        stats == acc.stats
        counted ==
            IF SameEncoding(source_encoding, target_encoding)
            THEN [stats EXCEPT !.already_target = @ + 1]
            ELSE IF IsUnconvertible(source_encoding)
            THEN [stats EXCEPT !.skipped = @ + 1]
            ELSE [stats EXCEPT !.converted = @ + 1, !.by_encoding[source_encoding] = @ + 1]
    IN [disk |-> acc.disk, stats |-> counted,
        outcomes |-> Append(acc.outcomes,
                            FileOutcome(file_info, FALSE, Outcome(acc.disk, TRUE, "dry_run", <<>>)))]

\* Lines 364-382: the actual conversion of one file and its bookkeeping.
real_run_file(acc, file_info, target_encoding, backup, copy_fails) ==
    LET source_encoding == file_info.encoding
        stats == acc.stats
        r == convert_file_encoding(acc.disk, file_info.path, target_encoding,
                                   source_encoding, backup, copy_fails)
        counted ==
            IF r.success
            THEN IF r.message = "already_target"
                 THEN [stats EXCEPT !.already_target = @ + 1]
                 ELSE [stats EXCEPT !.converted = @ + 1, !.by_encoding[source_encoding] = @ + 1]
            ELSE [stats EXCEPT !.failed = @ + 1,
                               !.failed_files = Append(@, <<file_info.path, r.message>>)]
    IN [disk |-> r.disk, stats |-> counted,
        outcomes |-> Append(acc.outcomes, FileOutcome(file_info, TRUE, r))]

\* The loop body with the dry_run flag ignored.
convert_one_ignoring_dry_run(acc, file_info, target_encoding, dry_run, backup, copy_fails) ==
    real_run_file(acc, file_info, target_encoding, backup, copy_fails)

\* One iteration of `for i, file_info in enumerate(folder_result['files'], 1)`.
convert_one(acc, file_info, target_encoding, dry_run, backup, copy_fails) ==
    IF dry_run
    THEN dry_run_file(acc, file_info, target_encoding)
    ELSE real_run_file(acc, file_info, target_encoding, backup, copy_fails)

RECURSIVE convert_loop(_, _, _, _, _, _)
convert_loop(acc, files, target_encoding, dry_run, backup, copy_fails) ==
    IF files = <<>> THEN acc
    ELSE convert_loop(convert_one(acc, Head(files), target_encoding, dry_run, backup, copy_fails),
                      Tail(files), target_encoding, dry_run, backup, copy_fails)

convert_folder_files(d, fr, target_encoding, dry_run, backup, copy_fails) ==
    convert_loop([disk |-> d, stats |-> NewStats(Len(fr.files)), outcomes |-> <<>>],
                 fr.files, target_encoding, dry_run, backup, copy_fails)

(***************************************************************************)
(* rollback_backups: every file matching '*.csv.bak' is moved onto the     *)
(* name without '.bak' (shutil.move replaces an existing destination).     *)
(***************************************************************************)
RECURSIVE rollback_loop(_, _, _)
rollback_loop(d, todo, restored) ==
    IF todo = {} THEN [disk |-> d, restored |-> restored, failed |-> 0]
    ELSE LET backup_file == CHOOSE p \in todo : TRUE
             original == OriginalPath(backup_file)
             moved == WriteFile(RemoveFile(d, backup_file), original, d[backup_file])
         IN rollback_loop(moved, todo \ {backup_file}, restored + 1)

rollback_backups(d) ==
    rollback_loop(d, {p \in DOMAIN d : GlobMatch("*.csv.bak", p)}, 0)

(***************************************************************************)
(* The conversion runs of the program: one classified folder holding one   *)
(* discovered file, converted (main with --convert-to) or rolled back      *)
(* (main with --rollback) up to MaxRuns times.                             *)
(***************************************************************************)
Contents == SeqsUpTo(ByteAlphabet, MaxLen)

CsvPaths == {p \in Paths : IsCsvFile(p)}

\* detect_encoding labels an empty file "unknown" (or reports an error).
LabelsFor(content) ==
    IF content = <<>> THEN {"unknown"} \cup ErrorLabels ELSE Labels

RollbackRun(d, restored) ==
    [op |-> "rollback", target |-> "", dry_run |-> FALSE, backup |-> FALSE, copy_fails |-> FALSE,
     pre |-> d, outcomes |-> <<>>, stats |-> NewStats(0), restored |-> restored]

HasRoundRun == Len(hist) > 0

NotCalled ==
    [called |-> FALSE, label |-> "", confidence |-> 0, reads |-> <<>>, calls |-> <<>>,
     fault |-> "none"]

DetIdle ==
    /\ dfile = <<>>
    /\ dparams = [sample_size |-> 1, do_second_pass |-> TRUE]
    /\ dres = NotCalled

\* No batch is run.
NotStarted ==
    [pc |-> "idle", total_files |-> 0, folders_with_csv |-> <<>>, folder_result_map |-> <<>>,
     tasks |-> <<>>, requested |-> 0, capped |-> 0, max_workers |-> 0, notice |-> FALSE,
     processed |-> 0, current |-> 0, folded |-> <<>>, interrupted_at |-> "none",
     raised |-> FALSE, ret |-> <<>>, exit |-> "running", summary |-> <<>>]

BatchIdle ==
    /\ tree = <<>>
    /\ opts = [csv_mode |-> "any", pattern |-> "None", bak_folder |-> "bak", jobs |-> 0,
               cpu |-> 1, fast |-> FALSE, sample_size |-> 1]
    /\ batch = NotStarted
    /\ futures = <<>>

InitConv ==
    /\ \E p \in CsvPaths, content \in Contents :
          \E label \in LabelsFor(content) :
             /\ disk = (p :> content)
             /\ folder_result = [folder_name |-> "data",
                                 files |-> <<[path |-> p, encoding |-> label]>>]
    /\ hist = <<>>
    /\ DetIdle
    /\ BatchIdle

ConvertFolder(target_encoding, dry_run, backup, copy_fails) ==
    /\ Len(hist) < MaxRuns
    /\ copy_fails => (backup /\ ~dry_run)
    /\ LET r == convert_folder_files(disk, folder_result, target_encoding,
                                     dry_run, backup, copy_fails)
       IN /\ disk' = r.disk
          /\ hist' = Append(hist,
                     [op |-> "convert", target |-> target_encoding, dry_run |-> dry_run,
                      backup |-> backup, copy_fails |-> copy_fails, pre |-> disk,
                      outcomes |-> r.outcomes, stats |-> r.stats, restored |-> 0])
    /\ UNCHANGED <<folder_result, detVars, batchVars>>

Rollback ==
    /\ Len(hist) < MaxRuns
    /\ LET r == rollback_backups(disk)
       IN /\ disk' = r.disk
          /\ hist' = Append(hist, RollbackRun(disk, r.restored))
    /\ UNCHANGED <<folder_result, detVars, batchVars>>

NextConv ==
    \/ \E t \in Targets, dry_run \in BOOLEAN, backup \in BOOLEAN, copy_fails \in BOOLEAN :
          ConvertFolder(t, dry_run, backup, copy_fails)
    \/ Rollback

SpecConv == InitConv /\ [][NextConv]_vars

(***************************************************************************)
(* Successive runs of the program on one file: every run classifies the    *)
(* file again before it converts it, so the label of a run need not be the *)
(* label of the run before.  Up to MaxRoundRuns conversions and rollbacks. *)
(***************************************************************************)
MaxRoundRuns == 3  \* conversion / rollback runs, each with its own classification

\* 'A', 'A' CR LF, 'A' LF, e-acute in ISO-8859-1 and in UTF-8, and 'A' after a
\* UTF-8 byte-order mark.
RoundContents ==
    {<<65>>, <<65, 13, 10>>, <<65, 10>>, <<233>>, <<195, 169>>, <<239, 187, 191, 65>>}

InitRound ==
    /\ \E p \in {q \in CsvPaths : GlobMatch("*.csv", q)}, content \in RoundContents :
          \E label \in LabelsFor(content) :
             /\ disk = (p :> content)
             /\ folder_result = [folder_name |-> "data",
                                 files |-> <<[path |-> p, encoding |-> label]>>]
    /\ hist = <<>>
    /\ DetIdle
    /\ BatchIdle

\* The next run of main classifies the file as it is now (lines 1080-1090).
RoundClassify ==
    /\ HasRoundRun
    /\ Len(hist) < MaxRoundRuns
    /\ \E label \in LabelsFor(disk[folder_result.files[1].path]) :
          /\ label # folder_result.files[1].encoding
          /\ folder_result' = [folder_result EXCEPT !.files[1].encoding = label]
    /\ UNCHANGED <<disk, hist, detVars, batchVars>>

\* main with --convert-to (lines 1114-1151): a real conversion of the folder.
RoundConvert(target_encoding, backup) ==
    /\ Len(hist) < MaxRoundRuns
    /\ LET r == convert_folder_files(disk, folder_result, target_encoding,
                                     FALSE, backup, FALSE)
       IN /\ disk' = r.disk
          /\ hist' = Append(hist,
                     [op |-> "convert", target |-> target_encoding, dry_run |-> FALSE,
                      backup |-> backup, copy_fails |-> FALSE, pre |-> disk,
                      outcomes |-> r.outcomes, stats |-> r.stats, restored |-> 0])
    /\ UNCHANGED <<folder_result, detVars, batchVars>>

\* main with --rollback.
RoundRollback ==
    /\ Len(hist) < MaxRoundRuns
    /\ LET r == rollback_backups(disk)
       IN /\ disk' = r.disk
          /\ hist' = Append(hist, RollbackRun(disk, r.restored))
    /\ UNCHANGED <<folder_result, detVars, batchVars>>

NextRound ==
    \/ RoundClassify
    \/ \E t \in Targets, backup \in BOOLEAN : RoundConvert(t, backup)
    \/ RoundRollback

SpecRound == InitRound /\ [][NextRound]_vars

(***************************************************************************)
(* The classifier.  Confidences are fixed-point numbers in hundredths: the *)
(* detector's 0.70 is 70, and the returned percentage 70.0 is 7000.        *)
(***************************************************************************)
second_pass_factor == 4

min_confidence_first_pass == 70

\* A returned confidence of p percent.
Percent(p) == p * 100

Min(a, b) == IF a <= b THEN a ELSE b

Max(a, b) == IF a >= b THEN a ELSE b

\* bytes.startswith
StartsWith(sample, prefix) ==
    Len(sample) >= Len(prefix) /\ SubSeq(sample, 1, Len(prefix)) = prefix

\* The UTF-16 marks tested before the UTF-32 ones.
detect_bom_utf16_first(sample) ==
    IF StartsWith(sample, <<239, 187, 191>>) THEN "utf-8-sig"
    ELSE IF StartsWith(sample, <<255, 254>>) THEN "utf-16-le"
    ELSE IF StartsWith(sample, <<254, 255>>) THEN "utf-16-be"
    ELSE IF StartsWith(sample, <<255, 254, 0, 0>>) THEN "utf-32-le"
    ELSE IF StartsWith(sample, <<0, 0, 254, 255>>) THEN "utf-32-be"
    ELSE "None"

_detect_bom(sample) ==
    IF StartsWith(sample, <<239, 187, 191>>) THEN "utf-8-sig"
    ELSE IF StartsWith(sample, <<255, 254, 0, 0>>) THEN "utf-32-le"
    ELSE IF StartsWith(sample, <<0, 0, 254, 255>>) THEN "utf-32-be"
    ELSE IF StartsWith(sample, <<255, 254>>) THEN "utf-16-le"
    ELSE IF StartsWith(sample, <<254, 255>>) THEN "utf-16-be"
    ELSE "None"

\* Number of positions of sample, among those of the given parity, holding v.
CountAt(sample, parity, v) ==
    Cardinality({i \in 1..Len(sample) : (i - 1) % 2 = parity /\ sample[i] = v})

\* odd_ratio > 0.40 is 5 * odd_zeros > 2 * half; even_ratio < 0.20 is 5 * even_zeros < half.
_guess_utf16_no_bom(sample) ==
    IF Len(sample) < 4 THEN "None"
    ELSE LET even_zeros == CountAt(sample, 0, 0)
             odd_zeros == CountAt(sample, 1, 0)
             half == Max(1, Len(sample) \div 2)
         IN IF 5 * odd_zeros > 2 * half /\ 5 * even_zeros < half THEN "utf-16-le"
            ELSE IF 5 * even_zeros > 2 * half /\ 5 * odd_zeros < half THEN "utf-16-be"
            ELSE "None"

\* ascii_bytes / len(sample) >= 0.98
_is_mostly_ascii(sample) ==
    IF sample = <<>> THEN FALSE
    ELSE LET ascii_bytes == Cardinality({i \in 1..Len(sample) : sample[i] < 128})
         IN 100 * ascii_bytes >= 98 * Len(sample)

\* sample.count(0) / len(sample) >= 0.30
_is_binary_like(sample) ==
    IF sample = <<>> THEN FALSE
    ELSE LET nuls == Cardinality({i \in 1..Len(sample) : sample[i] = 0})
         IN 10 * nuls >= 3 * Len(sample)

\* The fallbacks applied when the detector names no encoding.
Heuristics(sample) ==
    IF _guess_utf16_no_bom(sample) # "None"
    THEN [label |-> _guess_utf16_no_bom(sample), confidence |-> Percent(95)]
    ELSE IF _is_mostly_ascii(sample) THEN [label |-> "ascii", confidence |-> Percent(99)]
    ELSE IF _is_binary_like(sample) THEN [label |-> "binary", confidence |-> Percent(100)]
    ELSE [label |-> "unknown", confidence |-> 0]

(***************************************************************************)
(* chardet.detect is the external detector: any answer of DetectorAnswers. *)
(* A missing encoding name is "None".                                      *)
(***************************************************************************)
DetectorAnswers == [encoding : {"None", "Windows-1252"}, confidence : {0, 69, 70}]

\* res.get('encoding') or "unknown"
EncOf(res) == IF res.encoding = "None" THEN "unknown" ELSE res.encoding

\* Points of detect_encoding where the environment can make a call raise: the
\* file system calls and the three detector calls.
Faults ==
    {"none", "getsize", "open", "read_head", "tail", "read_big",
     "detect_head", "detect_combined", "detect_big"}

(***************************************************************************)
(* detect_encoding, cut at its detector calls.  A phase returns the        *)
(* progress record: done with (label, confidence), or the samples read so  *)
(* far; reads lists every f.read as [kind, want, got], calls every         *)
(* detector call.                                                          *)
(***************************************************************************)
Progress(done, label, confidence, reads, calls, head, combined, big) ==
    [done |-> done, label |-> label, confidence |-> confidence, reads |-> reads,
     calls |-> calls, head |-> head, combined |-> combined, big |-> big]

Return(st, label, confidence) ==
    [st EXCEPT !.done = TRUE, !.label = label, !.confidence = confidence]

Raise(st) == Return(st, "error: [Errno 13] Permission denied", 0)

ReadEv(kind, want, got) == [kind |-> kind, want |-> want, got |-> got]

\* Lines 200-210: size, open, head read, BOM check.
read_head(file, sample_size, fault) ==
    LET fsize == Len(file)
        st0 == Progress(FALSE, "", 0, <<>>, <<>>, <<>>, <<>>, <<>>)
        want == Min(sample_size, fsize)
        head == SubSeq(file, 1, want)
        st1 == [st0 EXCEPT !.reads = <<ReadEv("head", want, Len(head))>>, !.head = head]
    IN IF fault = "getsize" THEN Raise(st0)
       ELSE IF fsize = 0 THEN Return(st0, "unknown", 0)
       ELSE IF fault = "open" THEN Raise(st0)
       ELSE IF fault = "read_head"
       THEN Raise([st0 EXCEPT !.reads = <<ReadEv("head", want, 0)>>])
       ELSE IF _detect_bom(head) # "None" THEN Return(st1, _detect_bom(head), Percent(100))
       ELSE st1

\* The small-file branch missing: every file goes on as a bigger file.
after_head_no_small_branch(st, file, sample_size, head_res) ==
    LET st1 == [st EXCEPT !.calls = Append(@, [on |-> "head", sample |-> st.head, res |-> head_res])]
    IN IF head_res.confidence >= min_confidence_first_pass
       THEN Return(st1, EncOf(head_res), head_res.confidence * 100)
       ELSE st1

\* The early return taken only for a confidence above the threshold.
after_head_strict_threshold(st, file, sample_size, head_res) ==
    LET fsize == Len(file)
        head_enc == EncOf(head_res)
        head_conf == head_res.confidence
        st1 == [st EXCEPT !.calls = Append(@, [on |-> "head", sample |-> st.head, res |-> head_res])]
    IN IF fsize <= sample_size
       THEN IF head_enc # "unknown" THEN Return(st1, head_enc, head_conf * 100)
            ELSE Return(st1, Heuristics(st.head).label, Heuristics(st.head).confidence)
       ELSE IF head_conf > min_confidence_first_pass
       THEN Return(st1, head_enc, head_conf * 100)
       ELSE st1

\* Lines 213-232: the detector's answer on the head sample.
after_head(st, file, sample_size, head_res) ==
    LET fsize == Len(file)
        head_enc == EncOf(head_res)
        head_conf == head_res.confidence
        st1 == [st EXCEPT !.calls = Append(@, [on |-> "head", sample |-> st.head, res |-> head_res])]
    IN IF fsize <= sample_size
       THEN IF head_enc # "unknown" THEN Return(st1, head_enc, head_conf * 100)
            ELSE Return(st1, Heuristics(st.head).label, Heuristics(st.head).confidence)
       ELSE IF head_conf >= min_confidence_first_pass
       THEN Return(st1, head_enc, head_conf * 100)
       ELSE st1

\* Lines 235-240: the tail read; a failing seek or read leaves tail empty.
read_tail(st, file, sample_size, fault) ==
    LET fsize == Len(file)
        start == Max(0, fsize - sample_size)
        tail == IF fault = "tail" THEN <<>> ELSE SubSeq(file, start + 1, fsize)
    IN [st EXCEPT !.reads = Append(@, ReadEv("tail", sample_size, Len(tail))),
                  !.combined = st.head \o tail]

\* The deep pass taken whatever do_second_pass says.
after_tail_always_second_pass(st, do_second_pass, comb_res) ==
    LET comb_enc == EncOf(comb_res)
        comb_conf == comb_res.confidence
        st1 == [st EXCEPT !.calls = Append(@, [on |-> "combined", sample |-> st.combined, res |-> comb_res])]
    IN IF comb_conf >= min_confidence_first_pass /\ comb_enc # "unknown"
       THEN Return(st1, comb_enc, comb_conf * 100)
       ELSE st1

\* Lines 242-249 and 272: the detector's answer on head + tail.
after_tail(st, do_second_pass, comb_res) ==
    LET comb_enc == EncOf(comb_res)
        comb_conf == comb_res.confidence
        st1 == [st EXCEPT !.calls = Append(@, [on |-> "combined", sample |-> st.combined, res |-> comb_res])]
    IN IF comb_conf >= min_confidence_first_pass /\ comb_enc # "unknown"
       THEN Return(st1, comb_enc, comb_conf * 100)
       ELSE IF ~do_second_pass THEN Return(st1, "unknown", 0)
       ELSE st1

\* The deep pass reading the whole file.
read_big_whole_file(st, file, sample_size, fault) ==
    LET big == file
        st1 == [st EXCEPT !.reads = Append(@, ReadEv("big", Len(file), Len(big))), !.big = big]
    IN IF _detect_bom(big) # "None" THEN Return(st1, _detect_bom(big), Percent(100))
       ELSE st1

\* Lines 250-254: the larger read from the start of the file and its BOM check.
read_big(st, file, sample_size, fault) ==
    LET fsize == Len(file)
        want == Min(fsize, sample_size * second_pass_factor)
        big == SubSeq(file, 1, want)
        st1 == [st EXCEPT !.reads = Append(@, ReadEv("big", want, Len(big))), !.big = big]
    IN IF fault = "read_big"
       THEN Raise([st EXCEPT !.reads = Append(@, ReadEv("big", want, 0))])
       ELSE IF _detect_bom(big) # "None" THEN Return(st1, _detect_bom(big), Percent(100))
       ELSE st1

\* Lines 256-272: the detector's answer on the larger sample, then the heuristics.
after_big(st, big_res) ==
    LET big_enc == EncOf(big_res)
        st1 == [st EXCEPT !.calls = Append(@, [on |-> "big", sample |-> st.big, res |-> big_res])]
    IN IF big_enc # "unknown" THEN Return(st1, big_enc, big_res.confidence * 100)
       ELSE Return(st1, Heuristics(st.big).label, Heuristics(st.big).confidence)

\* The detector is a function of its input: the same sample gets the same answer.
AnswersFor(sample, st) ==
    IF \E i \in 1..Len(st.calls) : st.calls[i].sample = sample
    THEN {st.calls[CHOOSE i \in 1..Len(st.calls) : st.calls[i].sample = sample].res}
    ELSE DetectorAnswers

(***************************************************************************)
(* One call of detect_encoding on a file: a byte-order mark (whole or cut  *)
(* short) or nothing, followed by up to MaxBody bytes.                     *)
(***************************************************************************)
BomTable ==
    {[bytes |-> <<239, 187, 191>>, label |-> "utf-8-sig"],
     [bytes |-> <<255, 254>>, label |-> "utf-16-le"],
     [bytes |-> <<254, 255>>, label |-> "utf-16-be"],
     [bytes |-> <<255, 254, 0, 0>>, label |-> "utf-32-le"],
     [bytes |-> <<0, 0, 254, 255>>, label |-> "utf-32-be"]}

FilePrefixes == {<<>>, <<239, 187>>} \cup {b.bytes : b \in BomTable}

BodyAlphabet == {0, 65, 233}

DetFiles == {pre \o body : pre \in FilePrefixes, body \in SeqsUpTo(BodyAlphabet, MaxBody)}

ConvIdle ==
    /\ disk = <<>>
    /\ folder_result = [folder_name |-> "", files |-> <<>>]
    /\ hist = <<>>

InitDetect ==
    /\ dfile \in DetFiles
    /\ dparams \in [sample_size : 1..MaxSample, do_second_pass : BOOLEAN]
    /\ dres = NotCalled
    /\ ConvIdle
    /\ BatchIdle

\* A fault is part of a call only when the call reaches the point it strikes.
FaultStruck(st, fault) ==
    \/ fault = "none"
    \/ /\ fault \in {"getsize", "open", "read_head", "read_big",
                    "detect_head", "detect_combined", "detect_big"}
       /\ st.label \in ErrorLabels
    \/ fault = "tail" /\ \E i \in 1..Len(st.reads) : st.reads[i].kind = "tail"

Returned(st, fault) ==
    /\ st.done
    /\ FaultStruck(st, fault)
    /\ dres' = [called |-> TRUE, label |-> st.label, confidence |-> st.confidence,
                reads |-> st.reads, calls |-> st.calls, fault |-> fault]

\* Lines 198-275: the calls of one detect_encoding, in order; every answer the
\* detector can give is followed.  The result is the set of progress records
\* the call can end in.
detect_encoding(file, sample_size, do_second_pass, fault) ==
    LET from_big(p5) ==
            IF p5.done THEN {p5}
            ELSE IF fault = "detect_big" THEN {Raise(p5)}
            ELSE {after_big(p5, big_res) : big_res \in AnswersFor(p5.big, p5)}
        from_tail(p3) ==
            IF fault = "detect_combined" THEN {Raise(p3)}
            ELSE UNION {LET p4 == after_tail(p3, do_second_pass, comb_res)
                        IN IF p4.done THEN {p4}
                           ELSE from_big(read_big(p4, file, sample_size, fault))
                        : comb_res \in AnswersFor(p3.combined, p3)}
        from_head(p1) ==
            IF p1.done THEN {p1}
            ELSE IF fault = "detect_head" THEN {Raise(p1)}
            ELSE UNION {LET p2 == after_head(p1, file, sample_size, head_res)
                        IN IF p2.done THEN {p2}
                           ELSE from_tail(read_tail(p2, file, sample_size, fault))
                        : head_res \in AnswersFor(p1.head, p1)}
    IN from_head(read_head(file, sample_size, fault))

DetectEncoding(fault) ==
    /\ ~dres.called
    /\ \E st \in detect_encoding(dfile, dparams.sample_size, dparams.do_second_pass, fault) :
          Returned(st, fault)
    /\ UNCHANGED <<dfile, dparams, convVars, batchVars>>

NextDetect == \E fault \in Faults : DetectEncoding(fault)

SpecDetect == InitDetect /\ [][NextDetect]_vars

(***************************************************************************)
(* Properties of the conversion engine, over the recorded runs.            *)
(***************************************************************************)
HasRun == Len(hist) > 0

LastRun == hist[Len(hist)]

RealConversion(run) == run.op = "convert" /\ ~run.dry_run

\* The file at path p is the same (absent, or present with the same bytes) in d and e.
SameAt(d, e, p) ==
    /\ Exists(d, p) <=> Exists(e, p)
    /\ Exists(d, p) => d[p] = e[p]

Did(o, op) == \E i \in 1..Len(o.io) : o.io[i].op = op

DidBefore(o, i, op) == \E j \in 1..(i - 1) : o.io[j] = Ev(op, TRUE)

\* C1 (as claimed): after a conversion whose encoding into the target failed
\* (UnicodeEncodeError), the file holds the bytes it held before the call.
C1_EncodeFailureLeavesFile ==
    (HasRun /\ RealConversion(LastRun)) =>
        \A i \in 1..Len(LastRun.outcomes) :
            LET o == LastRun.outcomes[i]
            IN o.message = "Encode error" => SameAt(disk, LastRun.pre, o.path)

\* C2: when strict decoding under the source label fails, the conversion
\* returns success = FALSE, the file's bytes are unchanged and the backup file
\* is neither created nor modified.
C2_DecodeFailureAborts ==
    (HasRun /\ RealConversion(LastRun)) =>
        \A i \in 1..Len(LastRun.outcomes) :
            LET o == LastRun.outcomes[i]
            IN (/\ Lower(o.encoding) # Lower(LastRun.target)
                /\ o.encoding \notin {"unknown", "binary"} \cup ErrorLabels
                /\ Exists(LastRun.pre, o.path)
                /\ ~Decode(CodecOf(o.encoding), LastRun.pre[o.path]).ok)
               => /\ ~o.success
                  /\ o.message = "Decode error"
                  /\ SameAt(disk, LastRun.pre, o.path)
                  /\ SameAt(disk, LastRun.pre, BackupPath(o.path))

\* C2 witness: a backup-enabled conversion that failed to decode a file that
\* had no backup yet.
C2_Witness ==
    /\ HasRun
    /\ RealConversion(LastRun)
    /\ LastRun.backup /\ ~LastRun.copy_fails
    /\ \E i \in 1..Len(LastRun.outcomes) :
          /\ LastRun.outcomes[i].message = "Decode error"
          /\ ~Exists(LastRun.pre, BackupPath(LastRun.outcomes[i].path))

\* C3 (as claimed): a discovered file (*.csv or *.CSV) converted once with
\* backup enabled and then rolled back holds its pre-conversion bytes, and its
\* backup file no longer exists.
C3_RollbackRestores ==
    (/\ Len(hist) = 2
     /\ RealConversion(hist[1]) /\ hist[1].backup
     /\ hist[2].op = "rollback") =>
        \A i \in 1..Len(hist[1].outcomes) :
            LET o == hist[1].outcomes[i]
            IN (IsCsvFile(o.path) /\ o.success /\ o.message = "Converted")
               => /\ Exists(disk, o.path)
                  /\ disk[o.path] = hist[1].pre[o.path]
                  /\ ~Exists(disk, BackupPath(o.path))

\* C4: a file whose label equals the target case-insensitively is reported
\* (TRUE, "already_target"), counted as already_target, and the call performs
\* no read, no backup and no write: the whole file system is unchanged.
C4_AlreadyTargetNoOp ==
    (HasRun /\ RealConversion(LastRun)) =>
        \A i \in 1..Len(LastRun.outcomes) :
            LET o == LastRun.outcomes[i]
            IN Lower(o.encoding) = Lower(LastRun.target)
               => /\ o.success
                  /\ o.message = "already_target"
                  /\ o.io = <<>>
                  /\ SameAt(disk, LastRun.pre, o.path)
                  /\ SameAt(disk, LastRun.pre, BackupPath(o.path))
                  /\ LastRun.stats.already_target >= 1

\* C4 witness: label "UTF-8" against target "utf-8", with backup enabled and a
\* backup of the file already on disk.
C4_Witness ==
    /\ HasRun
    /\ RealConversion(LastRun)
    /\ LastRun.backup
    /\ \E i \in 1..Len(LastRun.outcomes) :
          LET o == LastRun.outcomes[i]
          IN /\ o.encoding # LastRun.target
             /\ Lower(o.encoding) = Lower(LastRun.target)
             /\ o.message = "already_target"
             /\ Exists(disk, BackupPath(o.path))

\* C5: for a label "unknown", "binary" or starting with "error", and a target
\* different from the label, the conversion never opens the file for writing
\* and never makes a backup: the file and its backup are unchanged.
C5_UnconvertibleUntouched ==
    (HasRun /\ RealConversion(LastRun)) =>
        \A i \in 1..Len(LastRun.outcomes) :
            LET o == LastRun.outcomes[i]
            IN (/\ o.encoding \in {"unknown", "binary"} \cup ErrorLabels
                /\ Lower(o.encoding) # Lower(LastRun.target))
               => /\ ~Did(o, "open_w")
                  /\ ~Did(o, "write")
                  /\ ~Did(o, "backup")
                  /\ SameAt(disk, LastRun.pre, o.path)
                  /\ SameAt(disk, LastRun.pre, BackupPath(o.path))

\* C5 witness: a backup-enabled conversion of a non-empty file labelled
\* "binary" that has no backup.
C5_Witness ==
    /\ HasRun
    /\ RealConversion(LastRun)
    /\ LastRun.backup /\ ~LastRun.copy_fails
    /\ \E i \in 1..Len(LastRun.outcomes) :
          LET o == LastRun.outcomes[i]
          IN /\ o.encoding = "binary"
             /\ o.called
             /\ LastRun.pre[o.path] # <<>>
             /\ ~Exists(disk, BackupPath(o.path))

\* C6: with dry_run set, convert_folder_files never calls the conversion of a
\* file and performs no file operation: the file system (every file's bytes
\* and the set of backup files) is the same before and after.
C6_DryRunTouchesNothing ==
    (HasRun /\ LastRun.op = "convert" /\ LastRun.dry_run) =>
        /\ disk = LastRun.pre
        /\ \A i \in 1..Len(LastRun.outcomes) :
              ~LastRun.outcomes[i].called /\ LastRun.outcomes[i].io = <<>>

\* C6 witness: a dry run over a file that a real run would convert and back up.
C6_Witness ==
    /\ HasRun
    /\ LastRun.op = "convert" /\ LastRun.dry_run /\ LastRun.backup
    /\ LastRun.stats.converted = 1
    /\ \E i \in 1..Len(LastRun.outcomes) :
          LET o == LastRun.outcomes[i]
          IN convert_file_encoding(LastRun.pre, o.path, LastRun.target, o.encoding,
                                   TRUE, FALSE).disk # LastRun.pre

\* C7: within one file's conversion the backup copy starts only after the read
\* and decode succeeded, the file is opened for writing only after the read
\* succeeded and (backup enabled) after the backup copy succeeded, and a failed
\* backup copy prevents the write: the file keeps its bytes.
C7_ReadBackupWriteOrder ==
    (HasRun /\ RealConversion(LastRun)) =>
        \A i \in 1..Len(LastRun.outcomes) :
            LET o == LastRun.outcomes[i]
            IN /\ \A k \in 1..Len(o.io) :
                    /\ o.io[k].op = "backup" => DidBefore(o, k, "read")
                    /\ o.io[k].op \in {"open_w", "write"} =>
                          /\ DidBefore(o, k, "read")
                          /\ LastRun.backup => DidBefore(o, k, "backup")
               /\ (\E k \in 1..Len(o.io) : o.io[k] = Ev("backup", FALSE)) =>
                     /\ ~Did(o, "open_w")
                     /\ ~Did(o, "write")
                     /\ ~o.success
                     /\ SameAt(disk, LastRun.pre, o.path)

\* C7 witness: a conversion that read, backed up, opened for writing and wrote.
C7_Witness ==
    /\ HasRun
    /\ RealConversion(LastRun)
    /\ \E i \in 1..Len(LastRun.outcomes) :
          LastRun.outcomes[i].io =
              <<Ev("read", TRUE), Ev("backup", TRUE), Ev("open_w", TRUE), Ev("write", TRUE)>>

(***************************************************************************)
(* Properties of the classifier, over the outcome of the call.             *)
(***************************************************************************)
BytesRead(reads) ==
    LET got(kind) == IF \E i \in 1..Len(reads) : reads[i].kind = kind
                     THEN reads[CHOOSE i \in 1..Len(reads) : reads[i].kind = kind].got
                     ELSE 0
    IN got("head") + got("tail") + got("big")

ReadsOf(kind) == {i \in 1..Len(dres.reads) : dres.reads[i].kind = kind}

\* C8 (as claimed): every non-empty file that begins with a standard BOM is
\* given exactly that BOM's label with confidence 100, for every file size,
\* following content and positive sample size.
C8_BomLabelAlways ==
    (dres.called /\ dres.fault = "none" /\ dfile # <<>>) =>
        \A b \in BomTable :
            StartsWith(dfile, b.bytes) =>
                dres.label = b.label /\ dres.confidence = Percent(100)

\* C8 (amended): when the longest standard BOM the file begins with fits in the
\* head sample (its length is at most sample_size) and no I/O call fails,
\* detect_encoding returns that BOM's label with confidence 100 after the head
\* read alone, for every file size and following content.
C8_LongestBomInSample ==
    (dres.called /\ dres.fault = "none") =>
        \A b \in BomTable :
            (/\ StartsWith(dfile, b.bytes)
             /\ Len(b.bytes) <= dparams.sample_size
             /\ ~\E c \in BomTable : Len(c.bytes) > Len(b.bytes) /\ StartsWith(dfile, c.bytes))
            => /\ dres.label = b.label
               /\ dres.confidence = Percent(100)
               /\ Len(dres.reads) = 1
               /\ dres.calls = <<>>

\* C8 witness: a UTF-32-LE mark, then content, in a file longer than the sample.
C8_Witness ==
    /\ dres.called /\ dres.fault = "none"
    /\ StartsWith(dfile, <<255, 254, 0, 0>>)
    /\ dparams.sample_size >= 4
    /\ Len(dfile) > dparams.sample_size
    /\ dres.label = "utf-32-le"

\* C9: one call reads at most 6 x sample_size bytes in all: one head read of at
\* most sample_size, at most one tail read of at most sample_size, at most one
\* deep read of at most 4 x sample_size, whatever the detector answers.
C9_BoundedReads ==
    dres.called =>
        /\ BytesRead(dres.reads) <= 6 * dparams.sample_size
        /\ Len(dres.reads) <= 3
        /\ \A kind \in {"head", "tail", "big"} : Cardinality(ReadsOf(kind)) <= 1
        /\ \A i \in 1..Len(dres.reads) :
              LET r == dres.reads[i]
                  cap == IF r.kind = "big" THEN 4 * dparams.sample_size
                         ELSE dparams.sample_size
              IN r.kind \in {"head", "tail", "big"} /\ r.want <= cap /\ r.got <= r.want

\* C9 witness: a call that read the full 6 x sample_size of a longer file.
C9_Witness ==
    /\ dres.called
    /\ BytesRead(dres.reads) = 6 * dparams.sample_size
    /\ Len(dfile) > 6 * dparams.sample_size

\* C10: for a file of at most sample_size bytes the call issues at most one
\* read, the head read, and never a tail or deep read; when no I/O call fails
\* it returns the BOM label, else the detector's label with its confidence
\* x 100, else the result of the heuristics on that same sample.
C10_SmallFileOneRead ==
    (dres.called /\ Len(dfile) <= dparams.sample_size) =>
        /\ Len(dres.reads) <= 1
        /\ ReadsOf("tail") = {} /\ ReadsOf("big") = {}
        /\ Len(dres.calls) <= 1
        /\ (dres.fault = "none" /\ dfile # <<>>) =>
              /\ dres.reads = <<ReadEv("head", Len(dfile), Len(dfile))>>
              /\ IF _detect_bom(dfile) # "None"
                 THEN dres.label = _detect_bom(dfile) /\ dres.confidence = Percent(100)
                 ELSE /\ Len(dres.calls) = 1
                      /\ dres.calls[1].sample = dfile
                      /\ LET res == dres.calls[1].res
                         IN IF res.encoding # "None"
                            THEN /\ dres.label = res.encoding
                                 /\ dres.confidence = res.confidence * 100
                            ELSE /\ dres.label = Heuristics(dfile).label
                                 /\ dres.confidence = Heuristics(dfile).confidence

\* C10 witness: a file that fits the sample, on which the detector names no
\* encoding with a confidence below the threshold, classified by the heuristics.
C10_Witness ==
    /\ dres.called /\ dres.fault = "none"
    /\ Len(dfile) > 0 /\ Len(dfile) <= dparams.sample_size
    /\ Len(dres.calls) = 1
    /\ dres.calls[1].res = [encoding |-> "None", confidence |-> 69]
    /\ dres.label = "binary"
    /\ Len(dres.reads) = 1

NoBom(file) == \A b \in BomTable : ~StartsWith(file, b.bytes)

Zeros(file) == Cardinality({i \in 1..Len(file) : file[i] = 0})

\* C11: for a file larger than sample_size that begins with no BOM and on whose
\* head sample the detector reports a confidence of at least 0.70, the call
\* performs exactly one read (the head: no tail read, no deep read), asks the
\* detector once, and returns the head label with the head confidence x 100.
C11_ConfidentHeadOneRead ==
    (/\ dres.called
     /\ Len(dfile) > dparams.sample_size
     /\ NoBom(dfile)
     /\ Len(dres.calls) >= 1
     /\ dres.calls[1].res.confidence >= 70)
    => LET res == dres.calls[1].res
       IN /\ dres.reads = <<ReadEv("head", dparams.sample_size, dparams.sample_size)>>
          /\ ReadsOf("tail") = {} /\ ReadsOf("big") = {}
          /\ Len(dres.calls) = 1
          /\ dres.label = (IF res.encoding = "None" THEN "unknown" ELSE res.encoding)
          /\ dres.confidence = res.confidence * 100

\* C11 witness: a file longer than the sample, deep pass allowed, whose head
\* the detector calls Windows-1252 with confidence exactly 0.70.
C11_Witness ==
    /\ dres.called /\ dres.fault = "none"
    /\ Len(dfile) > dparams.sample_size
    /\ NoBom(dfile)
    /\ dparams.do_second_pass
    /\ Len(dres.calls) = 1
    /\ dres.calls[1].res = [encoding |-> "Windows-1252", confidence |-> 70]
    /\ dres.label = "Windows-1252"
    /\ dres.confidence = 7000

\* C12 (as claimed): a call in which sizing, opening, a read or a detector call
\* failed returns a label starting with "error:" and confidence 0.
C12_FailureIsErrorLabel ==
    (dres.called /\ dres.fault # "none") =>
        /\ dres.label \in ErrorLabels
        /\ dres.confidence = 0

\* C13 (as claimed): a readable file with no BOM in which at least 30% of the
\* bytes are zero is labelled "binary"; stated here for the calls in which the
\* detector named no encoding on any sample and the deep pass was allowed.
C13_ZeroHeavyIsBinary ==
    (/\ dres.called /\ dres.fault = "none"
     /\ dparams.do_second_pass
     /\ dfile # <<>>
     /\ NoBom(dfile)
     /\ 10 * Zeros(dfile) >= 3 * Len(dfile)
     /\ \A i \in 1..Len(dres.calls) : dres.calls[i].res.encoding = "None")
    => dres.label = "binary"

(***************************************************************************)
(* Folder discovery.  A file under the root is [dir, name]: dir is the     *)
(* sequence of directory names leading from the root to it, name one of    *)
(* Paths ("a.csv", "a.CSV" and their ".bak" copies, which no discovery     *)
(* pattern matches).  A directory exists when a file lies below it.        *)
(***************************************************************************)
MaxFiles == 3      \* discovery: most files under the root

Root == <<>>

\* The possible immediate subdirectories, as sorted(subfolders) orders them.
SubfolderOrder == <<"a2", "b_1">>

TreeDirs ==
    {Root, <<"a2">>, <<"a2", "bak">>, <<"a2", "bak", "deep">>, <<"a2", "deep">>,
     <<"b_1">>, <<"b_1", "bak">>}

TreeFiles == [dir : TreeDirs, name : Paths]

RECURSIVE SetsUpTo(_, _)
SetsUpTo(S, n) ==
    IF n = 0 THEN {{}}
    ELSE LET smaller == SetsUpTo(S, n - 1)
         IN smaller \cup {t \cup {x} : t \in smaller, x \in S}

\* d is dir or lies below dir.
IsUnder(dir, d) == Len(d) >= Len(dir) /\ SubSeq(d, 1, Len(dir)) = dir

\* Path.glob(pattern): the entries directly in dir that match.
glob(t, dir, pattern) == {f \in DOMAIN t : f.dir = dir /\ GlobMatch(pattern, f.name)}

\* Path.rglob(pattern): the entries at any depth in or below dir that match.
rglob(t, dir, pattern) == {f \in DOMAIN t : IsUnder(dir, f.dir) /\ GlobMatch(pattern, f.name)}

\* list(...) of a glob result: the entries in the order the directory yields them.
RECURSIVE ListOf(_)
ListOf(S) ==
    IF S = {} THEN <<>>
    ELSE LET x == CHOOSE y \in S : TRUE
         IN <<x>> \o ListOf(S \ {x})

\* list(d.glob('*.csv')) + list(d.glob('*.CSV'))
csv_glob(t, dir) == ListOf(glob(t, dir, "*.csv")) \o ListOf(glob(t, dir, "*.CSV"))

\* list(d.rglob('*.csv')) + list(d.rglob('*.CSV'))
csv_rglob(t, dir) == ListOf(rglob(t, dir, "*.csv")) \o ListOf(rglob(t, dir, "*.CSV"))

\* dir.exists() (and is_dir()) for a directory below the root.
IsDir(t, dir) == \E f \in DOMAIN t : IsUnder(dir, f.dir)

\* [d for d in top_directory.iterdir() if d.is_dir()]
Subfolders(t) == {f.dir[1] : f \in {g \in DOMAIN t : Len(g.dir) >= 1}}

\* '_' in d.name
HasUnderscore(name) == name = "b_1"

\* The part of the folder name after its first delimiter of "_- ", or the name.
get_folder_display_name(folder_path) ==
    IF folder_path = Root THEN "data"
    ELSE LET name == folder_path[Len(folder_path)]
         IN IF name = "b_1" THEN "1" ELSE name

RECURSIVE SumLen(_)
SumLen(lists) == IF lists = <<>> THEN 0 ELSE Len(Head(lists)) + SumLen(Tail(lists))

\* Lines 528-548: the classic layout, the immediate subdirectories holding files.
classic_subfolders(t, pattern, bak_folder, csv_mode) ==
    LET subfolders == Subfolders(t)
        filtered == IF pattern = "underscore"
                    THEN {d \in subfolders : HasUnderscore(d)}
                    ELSE subfolders
        csv_files(d) ==
            IF csv_mode = "any" THEN csv_rglob(t, <<d>>)
            ELSE IF IsDir(t, <<d, bak_folder>>) THEN csv_glob(t, <<d, bak_folder>>)
            ELSE <<>>
        keep(d) == d \in filtered /\ csv_files(d) # <<>>
        kept == SelectSeq(SubfolderOrder, keep)
    IN [total_files |-> SumLen([i \in 1..Len(kept) |-> csv_files(kept[i])]),
        folders_with_csv |-> [i \in 1..Len(kept) |-> <<kept[i]>>]]

\* The discovery without the test for files directly in the root.
count_total_csv_files_classic_only(t, pattern, bak_folder, csv_mode) ==
    classic_subfolders(t, pattern, bak_folder, csv_mode)

count_total_csv_files(t, pattern, bak_folder, csv_mode) ==
    LET direct_csv_files == csv_glob(t, Root)
    IN IF direct_csv_files # <<>>
       THEN [total_files |-> Len(direct_csv_files), folders_with_csv |-> <<Root>>]
       ELSE classic_subfolders(t, pattern, bak_folder, csv_mode)

\* Lines 605-617: the files of one discovered folder that become tasks.
folder_csv_files(t, subfolder, bak_folder, csv_mode) ==
    LET direct_csv_files == csv_glob(t, subfolder)
        bak_path == Append(subfolder, bak_folder)
    IN IF direct_csv_files # <<>> THEN direct_csv_files
       ELSE IF csv_mode = "any" THEN csv_rglob(t, subfolder)
       ELSE IF IsDir(t, bak_path) THEN csv_glob(t, bak_path)
       ELSE <<>>

(***************************************************************************)
(* analyze_all_subfolders: the preparation of the batch (lines 578-644).   *)
(***************************************************************************)
DetectLabels ==
    {b.label : b \in BomTable} \cup {"Windows-1252", "ascii", "binary", "unknown"}
        \cup ErrorLabels

NewFolderResult(subfolder, total) ==
    [folder_path |-> subfolder, folder_name |-> get_folder_display_name(subfolder),
     files |-> <<>>, encodings |-> [l \in DetectLabels |-> 0], total |-> total,
     detected |-> 0, errors |-> 0]

\* tasks.append((f, subfolder, res['folder_name'], sample_size, not fast))
RECURSIVE folder_tasks(_, _, _, _)
folder_tasks(t, o, folders, i) ==
    IF i > Len(folders) THEN <<>>
    ELSE LET csv_files == folder_csv_files(t, folders[i], o.bak_folder, o.csv_mode)
         IN [j \in 1..Len(csv_files) |->
                [file_path |-> csv_files[j], folder_path |-> folders[i],
                 folder_display_name |-> get_folder_display_name(folders[i]),
                 sample_size |-> o.sample_size, do_second_pass |-> ~o.fast]]
            \o folder_tasks(t, o, folders, i + 1)

\* DEFAULT_JOBS = max(1, (os.cpu_count() or 1) // 2)
DEFAULT_JOBS(cpu) == Max(1, cpu \div 2)

\* requested = jobs if (jobs and jobs > 0) else DEFAULT_JOBS; jobs None is 0 here.
requested_jobs(jobs, cpu) == IF jobs > 0 THEN jobs ELSE DEFAULT_JOBS(cpu)

\* capped = min(requested, cpu * 2, total_files)
capped_jobs(requested, cpu, total_files) == Min(requested, Min(cpu * 2, total_files))

NewFuture == [state |-> "PENDING", label |-> "", confidence |-> 0, runs |-> 0, yielded |-> FALSE]

\* [folder_result_map[f] for f in folders_with_csv if folder_result_map[f]['total'] > 0]
returned_results(b) ==
    LET has_files(res) == res.total > 0
    IN SelectSeq(b.folder_result_map, has_files)

\* main after the call (lines 1079-1099 and 1169): how the program ends.
main_exit(raised, all_results) ==
    IF raised THEN "exit 130: Ctrl+C"
    ELSE IF all_results = <<>> THEN "exit 0: no CSV files found"
    ELSE "exit 0: analysis complete"

RECURSIVE Sum(_)
Sum(ns) == IF ns = <<>> THEN 0 ELSE Head(ns) + Sum(Tail(ns))

\* Lines 741-788: the numbers of the overall summary.  all_encodings counts the
\* file records by label (a label without record has no entry: 0 here), and
\* success_rate is (total_detected / total_files) * 100 in hundredths.
display_summary(all_results) ==
    LET total_files == Sum([k \in 1..Len(all_results) |-> all_results[k].total])
        total_detected == Sum([k \in 1..Len(all_results) |-> all_results[k].detected])
        total_errors == Sum([k \in 1..Len(all_results) |-> all_results[k].errors])
        records_of(k, l) ==
            Cardinality({j \in 1..Len(all_results[k].files) :
                            all_results[k].files[j].encoding = l})
    IN [total_folders |-> Len(all_results),
        total_files |-> total_files,
        total_detected |-> total_detected,
        total_errors |-> total_errors,
        all_encodings |->
            [l \in DetectLabels |-> Sum([k \in 1..Len(all_results) |-> records_of(k, l)])],
        success_rate |-> IF total_files > 0
                         THEN (Percent(total_detected) * 100) \div total_files
                         ELSE 0]

prepare(t, o, b) ==
    LET counted == count_total_csv_files(t, o.pattern, o.bak_folder, o.csv_mode)
        folders == counted.folders_with_csv
        requested == requested_jobs(o.jobs, o.cpu)
        capped == capped_jobs(requested, o.cpu, counted.total_files)
    IN IF counted.total_files = 0
       THEN [b EXCEPT !.pc = "returned", !.ret = <<>>, !.exit = main_exit(FALSE, <<>>)]
       ELSE [b EXCEPT
               !.pc = "classify",
               !.total_files = counted.total_files,
               !.folders_with_csv = folders,
               !.folder_result_map =
                    [i \in 1..Len(folders) |->
                        NewFolderResult(folders[i],
                            Len(folder_csv_files(t, folders[i], o.bak_folder, o.csv_mode)))],
               !.tasks = folder_tasks(t, o, folders, 1),
               !.requested = requested,
               !.capped = capped,
               !.notice = (capped < requested),
               !.max_workers = Max(1, capped)]

\* Lines 578-644: discovery, result skeletons, tasks, worker count, submission.
Scan ==
    /\ batch.pc = "start"
    /\ batch' = prepare(tree, opts, batch)
    /\ futures' = [i \in 1..Len(batch'.tasks) |-> NewFuture]
    /\ UNCHANGED <<tree, opts, convVars, detVars>>

(***************************************************************************)
(* The worker pool and the fold loop of analyze_all_subfolders (lines      *)
(* 640-700).  A future is PENDING until a worker takes its task, RUNNING   *)
(* while _detect_one runs, then FINISHED; CANCELLED when cancelled before  *)
(* a worker took it.  runs counts the executions of the task.              *)
(***************************************************************************)
Running(futs) == {i \in DOMAIN futs : futs[i].state = "RUNNING"}

\* The pool hands the submitted tasks to its workers in submission order.
next_pending(futs) ==
    {i \in DOMAIN futs : /\ futs[i].state = "PENDING"
                         /\ \A j \in 1..(i - 1) : futs[j].state # "PENDING"}

\* Lines 553-562: the (encoding, confidence) pairs detect_encoding can return.
_detect_one(t, task, fault) ==
    {[label |-> st.label, confidence |-> st.confidence] :
        st \in {s \in detect_encoding(t[task.file_path], task.sample_size,
                                      task.do_second_pass, fault) : FaultStruck(s, fault)}}

\* as_completed(futures): the finished futures not handed to the loop yet.
as_completed(futs) == {i \in DOMAIN futs : futs[i].state = "FINISHED" /\ ~futs[i].yielded}

\* folder_result_map[folder_path], as a position in the discovery order.
FolderIndex(b, folder_path) ==
    CHOOSE k \in 1..Len(b.folders_with_csv) : b.folders_with_csv[k] = folder_path

\* The record appended to the first folder, whatever folder the task names.
fold_append_first_folder(b, i, encoding, confidence) ==
    [b EXCEPT !.folder_result_map[1].files =
                  Append(@, [path |-> b.tasks[i].file_path, name |-> b.tasks[i].file_path.name,
                             encoding |-> encoding, confidence |-> confidence]),
              !.current = i,
              !.folded = Append(@, i)]

\* Lines 647-655: fut.result() and the file record appended to its folder.
fold_append(b, i, encoding, confidence) ==
    [b EXCEPT !.folder_result_map[FolderIndex(b, b.tasks[i].folder_path)].files =
                  Append(@, [path |-> b.tasks[i].file_path, name |-> b.tasks[i].file_path.name,
                             encoding |-> encoding, confidence |-> confidence]),
              !.current = i,
              !.folded = Append(@, i)]

\* Lines 657-663: the counters of the folder, then processed += 1.
fold_count(b, encoding) ==
    LET k == FolderIndex(b, b.tasks[b.current].folder_path)
    IN IF encoding # "" /\ ~StartsWithError(encoding) /\ encoding # "unknown"
       THEN [b EXCEPT !.folder_result_map[k].detected = @ + 1,
                      !.folder_result_map[k].encodings[encoding] = @ + 1,
                      !.processed = @ + 1,
                      !.current = 0]
       ELSE [b EXCEPT !.folder_result_map[k].errors = @ + 1,
                      !.processed = @ + 1,
                      !.current = 0]

\* The interrupt handler cancelling nothing.
cancel_nothing(futs) == futs

\* Lines 673-685: fut.cancel() on every future and shutdown(cancel_futures=True)
\* cancel the futures no worker has taken; the others are left alone.
cancel_pending(futs) ==
    [i \in DOMAIN futs |->
        IF futs[i].state = "PENDING" THEN [futs[i] EXCEPT !.state = "CANCELLED"] ELSE futs[i]]

\* A worker takes the oldest pending task.
StartTask(i) ==
    /\ i \in next_pending(futures)
    /\ Cardinality(Running(futures)) < batch.max_workers
    /\ futures' = [futures EXCEPT ![i].state = "RUNNING", ![i].runs = @ + 1]
    /\ UNCHANGED <<tree, opts, batch, convVars, detVars>>

\* A worker returns from _detect_one.
FinishTask(i, fault) ==
    /\ i \in Running(futures)
    /\ \E r \in _detect_one(tree, batch.tasks[i], fault) :
          futures' = [futures EXCEPT ![i].state = "FINISHED", ![i].label = r.label,
                                     ![i].confidence = r.confidence]
    /\ UNCHANGED <<tree, opts, batch, convVars, detVars>>

\* The loop takes a completed future and appends its file record.
FoldAppend(i) ==
    /\ batch.pc = "classify"
    /\ batch.current = 0
    /\ i \in as_completed(futures)
    /\ batch' = fold_append(batch, i, futures[i].label, futures[i].confidence)
    /\ futures' = [futures EXCEPT ![i].yielded = TRUE]
    /\ UNCHANGED <<tree, opts, convVars, detVars>>

\* The loop body goes on to the counters of the record just appended.
FoldCount ==
    /\ batch.pc = "classify"
    /\ batch.current # 0
    /\ batch' = fold_count(batch, futures[batch.current].label)
    /\ UNCHANGED <<tree, opts, futures, convVars, detVars>>

\* as_completed is exhausted: the loop and the try block are left.
LoopEnd ==
    /\ batch.pc = "classify"
    /\ batch.current = 0
    /\ \A i \in DOMAIN futures : futures[i].yielded
    /\ batch' = [batch EXCEPT !.pc = "finish"]
    /\ UNCHANGED <<tree, opts, futures, convVars, detVars>>

\* Lines 688-700: the pool is shut down and the folder results are returned.
Finish ==
    /\ batch.pc = "finish"
    /\ batch' = [batch EXCEPT !.pc = "returned",
                              !.ret = returned_results(batch),
                              !.exit = main_exit(FALSE, returned_results(batch))]
    /\ UNCHANGED <<tree, opts, futures, convVars, detVars>>

\* KeyboardInterrupt raised in the main process inside the try block (lines
\* 642-665): the handler of lines 667-686 cancels and returns.
Interrupt ==
    /\ batch.pc = "classify"
    /\ futures' = cancel_pending(futures)
    /\ batch' = [batch EXCEPT !.pc = "returned",
                              !.interrupted_at = "classify",
                              !.ret = returned_results(batch),
                              !.exit = main_exit(FALSE, returned_results(batch))]
    /\ UNCHANGED <<tree, opts, convVars, detVars>>

\* KeyboardInterrupt raised outside the try block (while scanning, or after the
\* loop): it leaves analyze_all_subfolders and main exits (lines 1091-1094).
InterruptOutside ==
    /\ batch.pc \in {"start", "finish"}
    /\ batch' = [batch EXCEPT !.pc = "returned",
                              !.interrupted_at = batch.pc,
                              !.raised = TRUE,
                              !.exit = main_exit(TRUE, <<>>)]
    /\ UNCHANGED <<tree, opts, futures, convVars, detVars>>

\* main after a call that returned folder results (lines 1101-1112): the
\* overall summary is displayed.
Display ==
    /\ batch.pc = "returned"
    /\ ~batch.raised
    /\ batch.ret # <<>>
    /\ batch.summary = <<>>
    /\ batch' = [batch EXCEPT !.summary = <<display_summary(batch.ret)>>]
    /\ UNCHANGED <<tree, opts, futures, convVars, detVars>>

(***************************************************************************)
(* Discovery alone: a tree of up to MaxFiles files, every option.          *)
(***************************************************************************)
Started == [NotStarted EXCEPT !.pc = "start"]

InitScan ==
    /\ \E S \in SetsUpTo(TreeFiles, MaxFiles) : tree = [f \in S |-> <<65>>]
    /\ opts \in [csv_mode : {"any", "subdir"}, pattern : {"None", "underscore"},
                 bak_folder : {"bak"}, jobs : {0, 1, 16}, cpu : {1, 4},
                 fast : {FALSE}, sample_size : {1}]
    /\ batch = Started
    /\ futures = <<>>
    /\ ConvIdle
    /\ DetIdle

NextScan == Scan

SpecScan == InitScan /\ [][NextScan]_vars

(***************************************************************************)
(* A whole batch: up to MaxTasks files in two folders.                     *)
(***************************************************************************)
MaxTasks == 3      \* batch: most files under the root

BatchFiles ==
    {[dir |-> Root, name |-> [stem |-> "a", ext |-> ".csv", bak |-> FALSE]],
     [dir |-> <<"a2">>, name |-> [stem |-> "a", ext |-> ".csv", bak |-> FALSE]],
     [dir |-> <<"a2">>, name |-> [stem |-> "a", ext |-> ".CSV", bak |-> FALSE]],
     [dir |-> <<"b_1">>, name |-> [stem |-> "a", ext |-> ".csv", bak |-> FALSE]],
     [dir |-> <<"b_1", "bak">>, name |-> [stem |-> "a", ext |-> ".CSV", bak |-> FALSE]]}

\* What the files hold: 'A', NUL and e-acute, nothing, a UTF-8 byte-order mark.
BatchContent(f) ==
    IF f.dir = Root THEN <<65>>
    ELSE IF f.dir[1] = "b_1" THEN <<239, 187, 191>>
    ELSE IF f.name.ext = ".csv" THEN <<0, 233>>
    ELSE <<>>

InitBatch ==
    /\ \E S \in SetsUpTo(BatchFiles, MaxTasks) : tree = [f \in S |-> BatchContent(f)]
    /\ opts \in [csv_mode : {"any", "subdir"}, pattern : {"None", "underscore"},
                 bak_folder : {"bak"},
                 jobs : {0, 2, 16}, cpu : {1, 4}, fast : BOOLEAN, sample_size : {2}]
    /\ batch = Started
    /\ futures = <<>>
    /\ ConvIdle
    /\ DetIdle

NextBatch ==
    \/ Scan
    \/ \E i \in DOMAIN futures : StartTask(i)
    \/ \E i \in DOMAIN futures, fault \in Faults : FinishTask(i, fault)
    \/ \E i \in DOMAIN futures : FoldAppend(i)
    \/ FoldCount
    \/ LoopEnd
    \/ Finish
    \/ Interrupt
    \/ InterruptOutside
    \/ Display

SpecBatch == InitBatch /\ [][NextBatch]_vars

(***************************************************************************)
(* Properties of discovery and of the batch.                               *)
(***************************************************************************)
Matching(f) == ~f.name.bak /\ f.name.ext \in {".csv", ".CSV"}

\* The matching files directly in the root.
DirectFiles == {f \in DOMAIN tree : f.dir = Root /\ Matching(f)}

TaskFiles == {batch.tasks[i].file_path : i \in 1..Len(batch.tasks)}

\* The positions <<folder, record>> of the file records in a list of folder results.
Records(results) ==
    UNION {{<<k, j>> : j \in 1..Len(results[k].files)} : k \in 1..Len(results)}

RecordsFor(results, path) ==
    {p \in Records(results) : results[p[1]].files[p[2]].path = path}

TimesFolded(i) == Cardinality({n \in 1..Len(batch.folded) : batch.folded[n] = i})

\* C14: when a run that was not interrupted returns, every task has been
\* executed exactly once and folded exactly once: every task's file has exactly
\* one record over all returned folder results, in the result of its own
\* folder, and every folder result has len(files) = total.
C14_EachTaskOnce ==
    (batch.pc = "returned" /\ batch.interrupted_at = "none" /\ batch.total_files > 0) =>
        /\ \A i \in 1..Len(batch.tasks) :
              /\ futures[i].runs = 1
              /\ TimesFolded(i) = 1
              /\ Cardinality(RecordsFor(batch.ret, batch.tasks[i].file_path)) = 1
              /\ \A p \in RecordsFor(batch.ret, batch.tasks[i].file_path) :
                    /\ batch.ret[p[1]].folder_path = batch.tasks[i].folder_path
                    /\ batch.ret[p[1]].files[p[2]].encoding = futures[i].label
                    /\ batch.ret[p[1]].files[p[2]].confidence = futures[i].confidence
        /\ Cardinality(Records(batch.ret)) = Len(batch.tasks)
        /\ \A k \in 1..Len(batch.ret) : Len(batch.ret[k].files) = batch.ret[k].total

\* C14 witness: a completed run of three tasks in two folders, folded in an
\* order other than the submission order, one of them an error result.
C14_Witness ==
    /\ batch.pc = "returned" /\ batch.interrupted_at = "none"
    /\ Len(batch.tasks) = 3
    /\ Len(batch.ret) = 2
    /\ batch.folded # <<1, 2, 3>>
    /\ \E i \in 1..3 : futures[i].label \in ErrorLabels

\* C15: an interrupt raised in the main process during classification, after k
\* results have been folded, cancels every task no worker has taken, raises
\* nothing to the caller, and returns the folder results in discovery order
\* holding exactly the k records folded so far; nothing is folded afterwards.
C15_InterruptReturnsPartial ==
    (batch.pc = "returned" /\ batch.interrupted_at = "classify") =>
        /\ ~batch.raised
        /\ \A i \in 1..Len(batch.tasks) :
              /\ futures[i].state # "PENDING"
              /\ futures[i].runs = 0 => futures[i].state = "CANCELLED"
              /\ futures[i].yielded <=> TimesFolded(i) = 1
        /\ [k \in 1..Len(batch.ret) |-> batch.ret[k].folder_path] = batch.folders_with_csv
        /\ \A n \in 1..Len(batch.folded) :
              Cardinality(RecordsFor(batch.ret, batch.tasks[batch.folded[n]].file_path)) = 1
        /\ Cardinality(Records(batch.ret)) = Len(batch.folded)
        /\ [k \in 1..Len(batch.ret) |-> batch.ret[k].files]
              = [k \in 1..Len(batch.ret) |-> batch.folder_result_map[k].files]

\* C15 witness: an interrupt after one of three results was folded, with one
\* task cancelled before it started and one abandoned (run, never folded).
C15_Witness ==
    /\ batch.pc = "returned" /\ batch.interrupted_at = "classify"
    /\ Len(batch.tasks) = 3
    /\ Len(batch.folded) = 1
    /\ \E i \in 1..3 : futures[i].state = "CANCELLED"
    /\ \E i \in 1..3 : futures[i].state = "FINISHED" /\ ~futures[i].yielded
    /\ Cardinality(Records(batch.ret)) = 1

\* C16 (as claimed): a run interrupted by the user ends with the interrupted
\* status, distinct from the status of a run that completed all its tasks.
C16_InterruptedStatusDistinct ==
    (batch.pc = "returned" /\ batch.interrupted_at # "none") =>
        batch.exit = "exit 130: Ctrl+C"

\* C17 (as claimed): the worker count is min(requested, 2 x cores, number of
\* tasks), requested being jobs when positive and max(1, cores // 2) otherwise,
\* and the notice is printed exactly when that count is below requested.
C17_WorkerClamp ==
    batch.pc = "classify" =>
        LET requested == IF opts.jobs > 0 THEN opts.jobs
                         ELSE IF opts.cpu \div 2 >= 1 THEN opts.cpu \div 2 ELSE 1
            two_cpu == 2 * opts.cpu
            n == Len(batch.tasks)
            effective == CHOOSE m \in {requested, two_cpu, n} :
                             m <= requested /\ m <= two_cpu /\ m <= n
        IN /\ batch.max_workers = effective
           /\ batch.notice <=> (effective < requested)

\* C18: when at least one matching file lies directly in the root, whatever
\* csv_mode and pattern are, the root is the single folder, the tasks are
\* exactly the matching files directly in the root (no file of a subdirectory),
\* and the one folder result to return has total = the number of those files.
C18_DirectLayout ==
    (batch.pc # "start" /\ DirectFiles # {}) =>
        /\ batch.pc = "classify"
        /\ batch.folders_with_csv = <<Root>>
        /\ TaskFiles = DirectFiles
        /\ Len(batch.tasks) = Cardinality(DirectFiles)
        /\ \A i \in 1..Len(batch.tasks) : batch.tasks[i].folder_path = Root
        /\ batch.total_files = Cardinality(DirectFiles)
        /\ Len(returned_results(batch)) = 1
        /\ returned_results(batch)[1].folder_path = Root
        /\ returned_results(batch)[1].total = Cardinality(DirectFiles)

\* C18 witness: a.csv and a.CSV directly in the root and a matching file in
\* b_1/bak, scanned in subdir mode with the underscore pattern.
C18_Witness ==
    /\ batch.pc = "classify"
    /\ Cardinality(DirectFiles) = 2
    /\ \E f \in DOMAIN tree : f.dir = <<"b_1", "bak">> /\ Matching(f)
    /\ opts.csv_mode = "subdir" /\ opts.pattern = "underscore"
    /\ Len(batch.tasks) = 2

\* C19 (as claimed): in any mode with no matching file directly in the root,
\* every matching file at any depth under an included immediate subdirectory
\* is exactly one task, of that subdirectory's folder.
C19_AnyModeRecursive ==
    (batch.pc # "start" /\ opts.csv_mode = "any" /\ DirectFiles = {}) =>
        \A f \in DOMAIN tree :
            (/\ Matching(f)
             /\ Len(f.dir) >= 1
             /\ opts.pattern = "underscore" => HasUnderscore(f.dir[1]))
            => /\ Cardinality({i \in 1..Len(batch.tasks) : batch.tasks[i].file_path = f}) = 1
               /\ \A i \in 1..Len(batch.tasks) :
                     batch.tasks[i].file_path = f => batch.tasks[i].folder_path = <<f.dir[1]>>

\* C20 (as claimed): in subdir mode with no matching file directly in the root,
\* every task's file lies directly inside the child directory named bak_folder
\* of an immediate subdirectory.
C20_SubdirModeOnlyBak ==
    (batch.pc # "start" /\ opts.csv_mode = "subdir" /\ DirectFiles = {}) =>
        \A i \in 1..Len(batch.tasks) :
            LET f == batch.tasks[i].file_path
            IN Len(f.dir) = 2 /\ f.dir[2] = opts.bak_folder /\ batch.tasks[i].folder_path = <<f.dir[1]>>

RECURSIVE SumTotals(_)
SumTotals(results) ==
    IF results = <<>> THEN 0 ELSE Head(results).total + SumTotals(Tail(results))

\* C21 (as claimed): for every tree, csv_mode and pattern, the total file count
\* returned by discovery equals the number of classification tasks created,
\* which equals the sum of the total fields of the folder results.
C21_TotalEqualsTasks ==
    batch.pc # "start" =>
        /\ batch.total_files = Len(batch.tasks)
        /\ Len(batch.tasks) = SumTotals(batch.folder_result_map)

\* The labels of a file that cannot be used: unknown, an error, binary.
Unusable(label) == label = "unknown" \/ label \in ErrorLabels \/ label = "binary"

\* The fold loop passing from the record appended last to its counters.
CountsStep == batch.pc = "classify" /\ batch.current # 0 /\ batch'.processed = batch.processed + 1

\* C22 (as claimed): folding a file record whose label is unknown, starts with
\* error or is binary increments the folder's error count by one and leaves
\* the detected count and the encoding histogram unchanged.
C22_UnusableCountsAsError ==
    [][(CountsStep /\ Unusable(futures[batch.current].label)) =>
          LET k == CHOOSE n \in 1..Len(batch.folders_with_csv) :
                       batch.folders_with_csv[n] = batch.tasks[batch.current].folder_path
          IN /\ batch'.folder_result_map[k].errors = batch.folder_result_map[k].errors + 1
             /\ batch'.folder_result_map[k].detected = batch.folder_result_map[k].detected
             /\ batch'.folder_result_map[k].encodings = batch.folder_result_map[k].encodings]_vars

\* C23 (as claimed): the global histogram of the overall summary equals, for
\* every label, the sum of that label's counts in the per-folder histograms,
\* and the global success rate is the sum of detected over the sum of total
\* (stated for a run that completed all its tasks).
C23_GlobalHistogramIsSum ==
    (batch.summary # <<>> /\ batch.interrupted_at = "none") =>
        LET shown == batch.summary[1]
            n == Len(batch.ret)
            detected == SumTotals([k \in 1..n |-> [total |-> batch.ret[k].detected]])
            total == SumTotals(batch.ret)
        IN /\ \A l \in DetectLabels :
                 shown.all_encodings[l]
                     = SumTotals([k \in 1..n |-> [total |-> batch.ret[k].encodings[l]]])
           /\ total > 0 => shown.success_rate = (detected * 10000) \div total

\* The position of a file among the tasks (the submission order).
TaskIndex(path) == CHOOSE i \in 1..Len(batch.tasks) : batch.tasks[i].file_path = path

Detected(label) == label # "" /\ label # "unknown" /\ label \notin ErrorLabels

\* C24 (as claimed): for fixed per-file results the returned folder results are
\* the same for every completion order.  The submission order is one of the
\* completion orders, so every completed run returns what that order returns:
\* the folders in discovery order, each folder's records in the order of its
\* tasks, and counters and histogram that are functions of the records.
C24_OrderIndependent ==
    (batch.pc = "returned" /\ batch.interrupted_at = "none" /\ batch.total_files > 0) =>
        /\ [k \in 1..Len(batch.ret) |-> batch.ret[k].folder_path] = batch.folders_with_csv
        /\ \A k \in 1..Len(batch.ret) :
              LET files == batch.ret[k].files
                  with(l) == {j \in 1..Len(files) : files[j].encoding = l}
              IN /\ \A a, b \in 1..Len(files) :
                        a < b => TaskIndex(files[a].path) < TaskIndex(files[b].path)
                 /\ batch.ret[k].detected
                        = Cardinality({j \in 1..Len(files) : Detected(files[j].encoding)})
                 /\ batch.ret[k].errors
                        = Cardinality({j \in 1..Len(files) : ~Detected(files[j].encoding)})
                 /\ \A l \in DetectLabels :
                        batch.ret[k].encodings[l]
                            = IF Detected(l) THEN Cardinality(with(l)) ELSE 0

\* C25 (as claimed): in a real (non-dry-run) conversion, a file whose label is
\* unknown, binary or an error is reported as skipped (status skipped_unknown
\* or skipped_binary, counted under skipped) and is neither counted under
\* failed nor listed among the failed files.
C25_UnconvertibleIsSkipped ==
    (HasRun /\ RealConversion(LastRun)) =>
        LET unconvertible ==
                {i \in 1..Len(LastRun.outcomes) :
                    /\ LastRun.outcomes[i].encoding \in {"unknown", "binary"} \cup ErrorLabels
                    /\ Lower(LastRun.outcomes[i].encoding) # Lower(LastRun.target)}
        IN /\ LastRun.stats.skipped = Cardinality(unconvertible)
           /\ \A i \in unconvertible :
                 /\ LastRun.outcomes[i].message \in {"skipped_unknown", "skipped_binary"}
                 /\ \A k \in 1..Len(LastRun.stats.failed_files) :
                       LastRun.stats.failed_files[k][1] # LastRun.outcomes[i].path
           /\ LastRun.stats.failed
                 = Cardinality({i \in 1..Len(LastRun.outcomes) : i \notin unconvertible
                                   /\ ~LastRun.outcomes[i].success})

(***************************************************************************)
(* Properties of successive runs.                                          *)
(***************************************************************************)
\* The run before the last one.
PrevRun == hist[Len(hist) - 1]

\* C26 (as claimed): converting a file from encoding A to encoding B and then,
\* with the source label set to B, back to A leaves the file byte-identical to
\* its original content, whenever both conversions succeed (A and B represent
\* every character of the content).
C26_RoundTripIdentical ==
    (/\ Len(hist) >= 2
     /\ RealConversion(PrevRun) /\ RealConversion(LastRun)
     /\ PrevRun.outcomes[1].success /\ LastRun.outcomes[1].success
     /\ Lower(LastRun.outcomes[1].encoding) = Lower(PrevRun.target)
     /\ Lower(LastRun.target) = Lower(PrevRun.outcomes[1].encoding))
    => disk[LastRun.outcomes[1].path] = PrevRun.pre[LastRun.outcomes[1].path]

(***************************************************************************)
(* Further properties of the classifier.                                   *)
(***************************************************************************)
\* The detector calls made on the head + tail sample.
CombinedCalls == {i \in 1..Len(dres.calls) : dres.calls[i].on = "combined"}

\* C27: in fast mode (do_second_pass false) detect_encoding never issues the
\* deep read: it reads the head and at most the tail, at most 2 x sample_size
\* bytes in all, and when the detector's answer on head + tail neither names an
\* encoding nor reaches the confidence 0.70 the result is ("unknown", 0).
C27_FastNoDeepPass ==
    (dres.called /\ ~dparams.do_second_pass) =>
        /\ ReadsOf("big") = {}
        /\ \A i \in 1..Len(dres.reads) : dres.reads[i].kind \in {"head", "tail"}
        /\ Cardinality(ReadsOf("head")) <= 1 /\ Cardinality(ReadsOf("tail")) <= 1
        /\ BytesRead(dres.reads) <= 2 * dparams.sample_size
        /\ \A i \in 1..Len(dres.calls) : dres.calls[i].on \in {"head", "combined"}
        /\ \A i \in CombinedCalls :
              ~(dres.calls[i].res.confidence >= 70 /\ dres.calls[i].res.encoding # "None")
                  => dres.label = "unknown" /\ dres.confidence = 0

\* C27 witness: a fast-mode call on a file larger than the sample that read
\* head and tail, got no confident answer on head + tail and returned unknown.
C27_Witness ==
    /\ dres.called /\ ~dparams.do_second_pass /\ dres.fault = "none"
    /\ Len(dfile) > dparams.sample_size
    /\ Len(dres.reads) = 2
    /\ BytesRead(dres.reads) = 2 * dparams.sample_size
    /\ CombinedCalls # {}
    /\ dres.label = "unknown"

(***************************************************************************)
(* Further properties of the batch.                                        *)
(***************************************************************************)
RECURSIVE HistogramSum(_, _)
HistogramSum(encodings, labels) ==
    IF labels = {} THEN 0
    ELSE LET l == CHOOSE x \in labels : TRUE
         IN encodings[l] + HistogramSum(encodings, labels \ {l})

\* C28 (as claimed): every folder result analyze_all_subfolders returns, on
\* normal completion or on an interrupt raised at any point of the fold loop,
\* has detected + errors = len(files) <= total and a histogram whose counts
\* sum to detected.
C28_CountersMatchRecords ==
    (batch.pc = "returned" /\ ~batch.raised) =>
        \A k \in 1..Len(batch.ret) :
            /\ batch.ret[k].detected + batch.ret[k].errors = Len(batch.ret[k].files)
            /\ Len(batch.ret[k].files) <= batch.ret[k].total
            /\ HistogramSum(batch.ret[k].encodings, DetectLabels) = batch.ret[k].detected

\* C29 (as claimed): whenever detect_encoding returns the label unknown, the
\* returned confidence is 0, on every path and for every detector answer.
C29_UnknownHasZeroConfidence ==
    (dres.called /\ dres.label = "unknown") => dres.confidence = 0

\* C30 (as claimed): a backup that already exists is never replaced by a later
\* conversion: after one or more backup-enabled conversions of a file, each to
\* another target than the one before, followed by one rollback, the file holds
\* the bytes it had before the first conversion.
C30_BackupNeverReplaced ==
    (/\ Len(hist) >= 2
     /\ LastRun.op = "rollback"
     /\ \A n \in 1..(Len(hist) - 1) : RealConversion(hist[n]) /\ hist[n].backup
     /\ \A n \in 2..(Len(hist) - 1) : hist[n].target # hist[n - 1].target)
    => LET p == folder_result.files[1].path
       IN /\ disk[p] = hist[1].pre[p]
          /\ \A n \in 2..(Len(hist) - 1) :
                Exists(hist[n].pre, BackupPath(p)) =>
                    hist[n + 1].pre[BackupPath(p)] = hist[n].pre[BackupPath(p)]

====
